---- MODULE Spec2Model ----
(***************************************************************************)
(* Model of the WHS_tool artifact extraction engine (extract_llm.py and    *)
(* its packaged twin extract_llm/cli.py): normalize_path, the walker       *)
(* recursive_search_and_extract, the planner/copier extract_item and the   *)
(* category/rule loop of main.                                             *)
(*                                                                         *)
(* Python strings are sequences of one-character strings, so that upper(), *)
(* replace(), split(), find() and the compiled wildcard pattern are        *)
(* computed character by character.  A path-so-far is a sequence of names. *)
(***************************************************************************)
EXTENDS Integers, Sequences, FiniteSets, TLC

VARIABLES
    image,            \* which filesystem tree the provider serves (root_entry)
    faults,           \* the provider / output I/O errors this run will meet
    llm_name,         \* args.LLM_NAME
    no_keep_plus,     \* args.no_keep_plus
    artifacts,        \* artifacts_to_extract: the rule dicts main iterates over
    collected_paths,  \* the ledger: category key -> list of entries
    out,              \* the output tree below program_output_dir
    streams,          \* byte streams obtained by GetFileObject and not closed
    counter,          \* counter['count'] of the rule last run
    log,              \* what the rule last run did: directories listed, extract_item calls, output operations
    ci,               \* position of main's category loop (from 1)
    ri,               \* position of main's rule loop (from 1)
    pc,               \* where main is
    arg,              \* input of the function under check (function specs)
    res,              \* results the function produced so far (function specs)
    stage             \* position of the function specs' driver

mainVars == <<image, faults, llm_name, no_keep_plus, artifacts, collected_paths,
              out, streams, counter, log, ci, ri, pc>>
funVars == <<arg, res, stage>>
vars == <<image, faults, llm_name, no_keep_plus, artifacts, collected_paths,
          out, streams, counter, log, ci, ri, pc, arg, res, stage>>

(***************************************************************************)
(* Bounds of the function specifications.                                  *)
(***************************************************************************)
MaxTemplateLen == 5
MaxNameLen == 3
MaxPathLen == 3

(***************************************************************************)
(* str helpers                                                             *)
(***************************************************************************)
LowerAlpha == <<"a","b","c","d","e","f","g","h","i","j","k","l","m",
                "n","o","p","q","r","s","t","u","v","w","x","y","z">>
UpperAlpha == <<"A","B","C","D","E","F","G","H","I","J","K","L","M",
                "N","O","P","Q","R","S","T","U","V","W","X","Y","Z">>

UpperMap == [c \in {LowerAlpha[i] : i \in 1..26} |->
                UpperAlpha[CHOOSE i \in 1..26 : LowerAlpha[i] = c]]
LowerMap == [c \in {UpperAlpha[i] : i \in 1..26} |->
                LowerAlpha[CHOOSE i \in 1..26 : UpperAlpha[i] = c]]

\* str.upper() / str.lower(), one character
UpperChar(c) == IF c \in DOMAIN UpperMap THEN UpperMap[c] ELSE c
LowerChar(c) == IF c \in DOMAIN LowerMap THEN LowerMap[c] ELSE c

\* str.upper() / str.lower()
Upper(s) == [i \in 1..Len(s) |-> UpperChar(s[i])]
Lower(s) == [i \in 1..Len(s) |-> LowerChar(s[i])]

\* str.replace(a, b) for one-character a and b
Replace(s, a, b) == [i \in 1..Len(s) |-> IF s[i] = a THEN b ELSE s[i]]

\* c in s
Contains(s, c) == \E i \in 1..Len(s) : s[i] = c

\* str.find(c), counted from 1; 0 when c does not occur (Python: from 0, -1)
Find(s, c) ==
    IF Contains(s, c)
    THEN CHOOSE i \in 1..Len(s) : s[i] = c /\ \A j \in 1..(i-1) : s[j] # c
    ELSE 0

\* str.lstrip(c)
LStrip(s, c) ==
    IF \A i \in 1..Len(s) : s[i] = c
    THEN <<>>
    ELSE SubSeq(s, CHOOSE i \in 1..Len(s) : s[i] # c /\ \A j \in 1..(i-1) : s[j] = c, Len(s))

\* str.split(c): always at least one piece
RECURSIVE Split(_, _)
Split(s, c) ==
    IF ~Contains(s, c)
    THEN <<s>>
    ELSE <<SubSeq(s, 1, Find(s, c) - 1)>> \o Split(SubSeq(s, Find(s, c) + 1, Len(s)), c)

\* sep.join(parts)
RECURSIVE Join(_, _)
Join(parts, sep) ==
    IF parts = <<>> THEN <<>>
    ELSE IF Len(parts) = 1 THEN parts[1]
    ELSE parts[1] \o sep \o Join(Tail(parts), sep)

(***************************************************************************)
(* normalize_path                                                          *)
(***************************************************************************)
normalize_path(path) ==
    LET normalized == Replace(path, "\\", "/")
        stripped ==
            IF Contains(normalized, ":")
               /\ (IF Contains(normalized, "/")
                   THEN Find(normalized, ":") < Find(normalized, "/")
                   ELSE TRUE)
            THEN SubSeq(normalized, Find(normalized, ":") + 1, Len(normalized))
            ELSE normalized
    IN  LStrip(Upper(stripped), "/")

(***************************************************************************)
(* Embedded-wildcard segment: the compiled pattern and pattern.match       *)
(***************************************************************************)
\* re.escape'd literal piece p matched at the start of name under re.IGNORECASE
LiteralAt(p, name) ==
    /\ Len(p) <= Len(name)
    /\ \A i \in 1..Len(p) : UpperChar(p[i]) = UpperChar(name[i])

\* pattern.match(name) for '.*'.join(pieces): anchored at the start of the
\* name only; whatever follows the last piece is left unexamined
RECURSIVE PatternMatch(_, _)
PatternMatch(pieces, name) ==
    IF Len(pieces) = 1
    THEN LiteralAt(pieces[1], name)
    ELSE /\ LiteralAt(pieces[1], name)
         /\ \E k \in Len(pieces[1])..Len(name) :
                PatternMatch(Tail(pieces), SubSeq(name, k + 1, Len(name)))

(***************************************************************************)
(* The filesystem the image-access provider serves.  A tree maps a node    *)
(* to its name, its kind ("file": IsFile(); "dir": IsDirectory(); "other": *)
(* neither, e.g. a link) and the children sub_file_entries yields, in      *)
(* enumeration order.  Node 1 is root_entry.  '.' and '..' are aliases of  *)
(* the directory itself and of its parent.  The root of every image holds  *)
(* a Windows directory: get_image_root_entry accepts no other partition.   *)
(***************************************************************************)
Node(name, kind, kids) == [name |-> name, kind |-> kind, kids |-> kids]

\* A/{x/{B.txt}, y/{}}, Windows
Image1 ==
    <<Node(<<"\\">>, "dir", <<2, 6>>),
      Node(<<"A">>, "dir", <<3, 5>>),
      Node(<<"x">>, "dir", <<4>>),
      Node(<<"B",".","t","x","t">>, "file", <<>>),
      Node(<<"y">>, "dir", <<>>),
      Node(<<"W","i","n","d","o","w","s">>, "dir", <<>>)>>

\* N/{Cookies, Other, cookies/{k}, lnk}, Windows
Image2 ==
    <<Node(<<"\\">>, "dir", <<2, 8>>),
      Node(<<"N">>, "dir", <<3, 4, 5, 7>>),
      Node(<<"C","o","o","k","i","e","s">>, "file", <<>>),
      Node(<<"O","t","h","e","r">>, "file", <<>>),
      Node(<<"c","o","o","k","i","e","s">>, "dir", <<6>>),
      Node(<<"k">>, "file", <<>>),
      Node(<<"l","n","k">>, "other", <<>>),
      Node(<<"W","i","n","d","o","w","s">>, "dir", <<>>)>>

\* D/{., .., f, d/{g, f}, F}, Windows
Image3 ==
    <<Node(<<"\\">>, "dir", <<2, 10>>),
      Node(<<"D">>, "dir", <<3, 4, 5, 6, 9>>),
      Node(<<".">>, "dir", <<3, 4, 5, 6, 9>>),
      Node(<<".",".">>, "dir", <<2, 10>>),
      Node(<<"f">>, "file", <<>>),
      Node(<<"d">>, "dir", <<7, 8>>),
      Node(<<"g">>, "file", <<>>),
      Node(<<"f">>, "file", <<>>),
      Node(<<"F">>, "file", <<>>),
      Node(<<"W","i","n","d","o","w","s">>, "dir", <<>>)>>

\* e/{f, h}, f/{g}, Windows
Image4 ==
    <<Node(<<"\\">>, "dir", <<2, 5, 7>>),
      Node(<<"e">>, "dir", <<3, 4>>),
      Node(<<"f">>, "file", <<>>),
      Node(<<"h">>, "file", <<>>),
      Node(<<"f">>, "dir", <<6>>),
      Node(<<"g">>, "file", <<>>),
      Node(<<"W","i","n","d","o","w","s">>, "dir", <<>>)>>

Images == <<Image1, Image2, Image3, Image4>>

\* the self/parent pseudo-entries
IsPseudo(name) == name \in {<<".">>, <<".", ".">>}

(***************************************************************************)
(* Errors the run can meet, each at one node:                              *)
(*   type    IsFile()/IsDirectory() raises                                 *)
(*   enum0   sub_file_entries raises before its first entry                *)
(*   enum1   sub_file_entries raises after its first entry                 *)
(*   getobj  GetFileObject() raises                                        *)
(*   nullobj GetFileObject() returns None                                  *)
(*   outopen open(output_target, 'wb') raises                              *)
(*   copy    file_object.read() or outfile.write() raises                  *)
(*   mkdir   mkdir(parents=True, exist_ok=True) for the node raises        *)
(***************************************************************************)
MaxFaults == 1

FaultSites(T) ==
    {<<n, "type">> : n \in {m \in DOMAIN T : ~IsPseudo(T[m].name)}}
    \cup {<<n, "enum0">> : n \in {m \in DOMAIN T : T[m].kind = "dir" /\ ~IsPseudo(T[m].name)}}
    \cup {<<n, "enum1">> : n \in {m \in DOMAIN T : T[m].kind = "dir" /\ ~IsPseudo(T[m].name)
                                                   /\ Len(T[m].kids) >= 2}}
    \cup {<<n, k>> : n \in {m \in DOMAIN T : T[m].kind = "file"},
                     k \in {"getobj", "nullobj", "outopen", "copy"}}
    \cup {<<n, "mkdir">> : n \in {m \in DOMAIN T : m # 1 /\ ~IsPseudo(T[m].name)}}

(***************************************************************************)
(* The state the recursion threads through its calls: the mutable          *)
(* arguments collected_paths and counter, the output tree, the open byte   *)
(* streams, the log, and exc, the exception now propagating ("" for none). *)
(***************************************************************************)
NoExc == ""

Raise(st, e) == [st EXCEPT !.exc = e]
Caught(st) == [st EXCEPT !.exc = NoExc]

Put(f, k, v) == [x \in DOMAIN f \cup {k} |-> IF x = k THEN v ELSE f[x]]

InList(list, e) == \E i \in 1..Len(list) : list[i] = e

\* A ledger entry is one Python string; tag, path, target and err are the
\* parts its text is formatted from, so two entries are the same string
\* exactly when they agree on the four.
\*   ok          original_full_path
\*   read_dir    "[EXTRACTION_FAILED] Could not read directory '<path>': <err>"
\*   list_items  "[EXTRACTION_FAILED] Failed to list items in directory '<path>': <err>"
\*   write_file  "[EXTRACTION_FAILED] Failed to write file '<path>' to '<target>': <err>"
\*   subdir      "[EXTRACTION_FAILED] Failed to process subdirectory in '<path>': <err>"
Entry(tag, path, target, err) ==
    [tag |-> tag, path |-> path, target |-> target, err |-> err]

\* a bug this code could have: the entry is appended without the membership test
RecordAlways(st, key, e) ==
    [st EXCEPT !.cp[key] = Append(@, e)]

\* a bug this code could have: a new entry is put at the head of the list
RecordFirst(st, key, e) ==
    IF InList(st.cp[key], e) THEN st ELSE [st EXCEPT !.cp[key] = <<e>> \o @]

\* if e not in collected_paths[category_key]: collected_paths[category_key].append(e)
Record(st, key, e) ==
    IF InList(st.cp[key], e) THEN st ELSE [st EXCEPT !.cp[key] = Append(@, e)]

Event(op, n, path, info, rel, loc) ==
    [op |-> op, node |-> n, path |-> path, info |-> info, rel |-> rel, loc |-> loc]

Logged(st, ev) == [st EXCEPT !.log = Append(@, ev)]

\* str(Path(category_key))
PathStr(category) == IF category = <<>> THEN <<".">> ELSE category

\* '/' + '/'.join(current_path_parts)
OriginalFullPath(cur) == <<"/">> \o Join(cur, <<"/">>)

(***************************************************************************)
(* The output-relative path (extract_item, planner part)                   *)
(***************************************************************************)
Placeholder == <<"{","L","L","M","_","N","A","M","E","}">>

\* pat in s
HasSub(s, pat) ==
    \E i \in 1..(Len(s) - Len(pat) + 1) : SubSeq(s, i, i + Len(pat) - 1) = pat

\* s.replace(pat, rep), pat not empty
RECURSIVE ReplaceSub(_, _, _)
ReplaceSub(s, pat, rep) ==
    IF Len(s) < Len(pat) THEN s
    ELSE IF SubSeq(s, 1, Len(pat)) = pat
         THEN rep \o ReplaceSub(SubSeq(s, Len(pat) + 1, Len(s)), pat, rep)
         ELSE <<s[1]>> \o ReplaceSub(Tail(s), pat, rep)

\* artifact_info.get(key, "")
Get(info, key) == IF key \in DOMAIN info THEN info[key] ELSE <<>>

ExtractRootName(info) ==
    LET parts == Split(Replace(Upper(Get(info, "extract_from")), "\\", "/"), "/")
        last == parts[Len(parts)]
    IN  IF HasSub(last, Placeholder)
        THEN ReplaceSub(last, Placeholder, Upper(Get(info, "llm_name_placeholder")))
        ELSE last

\* a bug this code could have: list.index without the reversal, so the FIRST
\* segment equal to the anchor starts the suffix
RelativePathPartsFirst(info, cur) ==
    LET root == ExtractRootName(info)
        hits == {i \in 1..Len(cur) : Upper(cur[i]) = root}
    IN  IF root # <<>> /\ hits # {}
        THEN SubSeq(cur, CHOOSE i \in hits : \A j \in hits : i <= j, Len(cur))
        ELSE <<cur[Len(cur)]>>

\* a bug this code could have: the anchor segment alone is taken instead of
\* the slice that starts at it
RelativePathPartsAnchorOnly(info, cur) ==
    LET root == ExtractRootName(info)
        hits == {i \in 1..Len(cur) : Upper(cur[i]) = root}
    IN  IF root # <<>> /\ hits # {}
        THEN <<cur[CHOOSE i \in hits : \A j \in hits : j <= i]>>
        ELSE <<cur[Len(cur)]>>

\* relative_path_parts, for a non-empty current_path_parts
RelativePathParts(info, cur) ==
    LET root == ExtractRootName(info)
        hits == {i \in 1..Len(cur) : Upper(cur[i]) = root}
    IN  IF root # <<>> /\ hits # {}
        THEN SubSeq(cur, CHOOSE i \in hits : \A j \in hits : j <= i, Len(cur))
        ELSE <<cur[Len(cur)]>>

\* a bug this code could have: extract_category is left out of output_target
OutputTargetNoCategory(category, rel) ==
    SelectSeq(rel, LAMBDA nm : nm # <<".">>)

\* Path(output_dir) / extract_category / Path(*relative_path_parts), below
\* output_dir; pathlib drops '.' components
OutputTarget(category, rel) ==
    <<PathStr(category)>> \o SelectSeq(rel, LAMBDA nm : nm # <<".">>)

(***************************************************************************)
(* The local output tree: out maps a location to what is there             *)
(***************************************************************************)
Written(kind, src, whole) == [kind |-> kind, src |-> src, whole |-> whole]

IsFileAt(o, loc) == loc \in DOMAIN o /\ o[loc].kind = "file"
IsDirAt(o, loc) == loc \in DOMAIN o /\ o[loc].kind = "dir"

\* the location the file system reaches for loc: a '..' component leads back
\* to the parent of what precedes it; <<>> is output_dir itself
ResolveStep(parent, name) ==
    IF name # <<".", ".">> THEN Append(parent, name)
    ELSE IF parent = <<>> THEN <<>>
    ELSE SubSeq(parent, 1, Len(parent) - 1)

RECURSIVE Resolve(_)
Resolve(loc) ==
    IF loc = <<>> THEN <<>>
    ELSE ResolveStep(Resolve(SubSeq(loc, 1, Len(loc) - 1)), loc[Len(loc)])

\* Path.mkdir(parents=True, exist_ok=True) at loc, called for node n: raises
\* when the call is faulty or a component of loc is a file
Mkdir(ctx, n, loc, st) ==
    LET blocked == {k \in 1..Len(loc) : IsFileAt(st.out, Resolve(SubSeq(loc, 1, k)))}
        upto == IF blocked = {} THEN Len(loc)
                ELSE (CHOOSE k \in blocked : \A j \in blocked : k <= j) - 1
        made == {Resolve(SubSeq(loc, 1, k)) : k \in 1..upto} \ (DOMAIN st.out \cup {<<>>})
        o2 == [l \in DOMAIN st.out \cup made |->
                  IF l \in DOMAIN st.out THEN st.out[l] ELSE Written("dir", 0, TRUE)]
    IN  IF <<n, "mkdir">> \in ctx.F THEN Raise(st, "mkdir")
        ELSE IF blocked # {} THEN Raise([st EXCEPT !.out = o2], "exists")
        ELSE [st EXCEPT !.out = o2]

(***************************************************************************)
(* The provider's enumeration of a directory: the entries the generator    *)
(* yields and whether it raises once they are consumed                     *)
(***************************************************************************)
Entries(items, raises) == [items |-> items, raises |-> raises]

SubFileEntries(ctx, n) ==
    IF <<n, "enum0">> \in ctx.F THEN Entries(<<>>, TRUE)
    ELSE IF <<n, "enum1">> \in ctx.F THEN Entries(SubSeq(ctx.T[n].kids, 1, 1), TRUE)
    ELSE Entries(ctx.T[n].kids, FALSE)

\* a bug this code could have: the handler swallows the exception and
\* records nothing
CatchUnrecorded(st, key, tag, path, target) == Caught(st)

\* except Exception as e: the failure entry is recorded and the exception ends
Catch(st, key, tag, path, target) ==
    IF st.exc # NoExc
    THEN Record(Caught(st), key, Entry(tag, path, target, st.exc))
    ELSE st

(***************************************************************************)
(* extract_item.  ctx holds what the recursion never changes: T the tree,  *)
(* F the faults, cat the extract_category.  The function is cut where its  *)
(* control flow branches: extract_item (type queries, ledger append),      *)
(* ExtractTyped (allow-list branch or placement), CopyOrRecurse (the file  *)
(* and directory branches).                                                *)
(***************************************************************************)
\* the body of the file branch's try block
CopyFile(ctx, n, cur, info, target, st) ==
    IF <<n, "getobj">> \in ctx.F THEN Raise(st, "getobj")
    ELSE IF <<n, "nullobj">> \in ctx.F THEN st
    ELSE LET opened == [st EXCEPT !.streams = Append(@, n)]
             created == Logged([opened EXCEPT
                                   !.out = Put(@, Resolve(target), Written("file", n, FALSE))],
                               Event("write", n, cur, info, <<>>, target))
         IN  IF <<n, "outopen">> \in ctx.F THEN Raise(opened, "outopen")
             ELSE IF Resolve(target) = <<>> \/ IsDirAt(st.out, Resolve(target))
                  THEN Raise(opened, "isdir")
             ELSE IF <<n, "copy">> \in ctx.F THEN Raise(created, "copy")
             ELSE [created EXCEPT
                      !.out = Put(@, Resolve(target), Written("file", n, TRUE)),
                      !.streams = SubSeq(@, 1, Len(@) - 1)]

RECURSIVE extract_item(_, _, _, _, _)
RECURSIVE AllowListLoop(_, _, _, _, _, _)
RECURSIVE CopyDirLoop(_, _, _, _, _, _)

\* for sub_entry in entry.sub_file_entries: if sub_name.upper() in target_files_upper: ...
AllowListLoop(ctx, sub, i, cur, info, st) ==
    IF st.exc # NoExc THEN st
    ELSE IF i > Len(sub.items) THEN (IF sub.raises THEN Raise(st, "enum") ELSE st)
    ELSE AllowListLoop(ctx, sub, i + 1, cur, info,
             IF Upper(ctx.T[sub.items[i]].name)
                    \in {Upper(info.extract_files[j]) : j \in 1..Len(info.extract_files)}
             THEN extract_item(ctx, sub.items[i], cur \o <<ctx.T[sub.items[i]].name>>,
                               [extract_from |-> ctx.T[sub.items[i]].name], st)
             ELSE st)

\* for sub_entry in entry.sub_file_entries: if sub_name not in ['.', '..']: ...
CopyDirLoop(ctx, sub, i, cur, info, st) ==
    IF st.exc # NoExc THEN st
    ELSE IF i > Len(sub.items) THEN (IF sub.raises THEN Raise(st, "enum") ELSE st)
    ELSE CopyDirLoop(ctx, sub, i + 1, cur, info,
             IF ~IsPseudo(ctx.T[sub.items[i]].name)
             THEN extract_item(ctx, sub.items[i], cur \o <<ctx.T[sub.items[i]].name>>,
                               info, st)
             ELSE st)

\* the file branch after output_target.parent.mkdir, whose result is parent
FileBranch(ctx, n, cur, info, target, parent) ==
    IF parent.exc # NoExc THEN parent
    ELSE Catch(CopyFile(ctx, n, cur, info, target, parent),
               PathStr(ctx.cat), "write_file", OriginalFullPath(cur), target)

\* the directory branch after output_target.mkdir, whose result is made
DirBranch(ctx, n, cur, info, target, made) ==
    IF made.exc # NoExc THEN made
    ELSE Catch(CopyDirLoop(ctx, SubFileEntries(ctx, n), 1, cur, info,
                           Logged(made, Event("mkdir", n, cur, info, <<>>, target))),
               PathStr(ctx.cat), "subdir", OriginalFullPath(cur), <<>>)

\* if is_file: ... elif is_directory: ..., with output_target computed
CopyOrRecurse(ctx, n, cur, info, target, st) ==
    IF ctx.T[n].kind = "file"
    THEN FileBranch(ctx, n, cur, info, target,
                    Mkdir(ctx, n, SubSeq(target, 1, Len(target) - 1),
                          [st EXCEPT !.count = @ + 1]))
    ELSE IF ctx.T[n].kind = "dir"
    THEN DirBranch(ctx, n, cur, info, target,
                   Mkdir(ctx, n, target, [st EXCEPT !.count = @ + 1]))
    ELSE st

\* extract_item from output_target on; rel is relative_path_parts
Placed(ctx, n, cur, info, rel, st) ==
    CopyOrRecurse(ctx, n, cur, info, OutputTarget(ctx.cat, rel),
                  Logged(st, Event("plan", n, cur, info, rel, OutputTarget(ctx.cat, rel))))

\* a bug this code could have: the allow-list branch is missing, so the
\* directory is copied like any other terminal match
ExtractTypedWholesale(ctx, n, cur, info, st) ==
    IF cur = <<>> THEN Raise(st, "index")
    ELSE Placed(ctx, n, cur, info, RelativePathParts(info, cur), st)

\* extract_item from the allow-list test on; st holds the success entry
ExtractTyped(ctx, n, cur, info, st) ==
    IF "extract_files" \in DOMAIN info /\ ctx.T[n].kind = "dir"
    THEN Catch(AllowListLoop(ctx, SubFileEntries(ctx, n), 1, cur, info, st),
               PathStr(ctx.cat), "list_items", OriginalFullPath(cur), <<>>)
    ELSE IF cur = <<>> THEN Raise(st, "index")
    ELSE Placed(ctx, n, cur, info, RelativePathParts(info, cur), st)

extract_item(ctx, n, cur, info, st) ==
    IF <<n, "type">> \in ctx.F
    THEN Raise(Logged(st, Event("call", n, cur, info, <<>>, <<>>)), "type")
    ELSE ExtractTyped(ctx, n, cur, info,
             Record(Logged(st, Event("call", n, cur, info, <<>>, <<>>)),
                    PathStr(ctx.cat), Entry("ok", OriginalFullPath(cur), <<>>, "")))

(***************************************************************************)
(* recursive_search_and_extract                                            *)
(***************************************************************************)
\* the first of the yielded entries whose position is in hits, or no entry;
\* the enumeration's error is met only when none is found before it
Lookup(sub, hits) ==
    IF hits # {}
    THEN Entries(<<sub.items[CHOOSE i \in hits : \A j \in hits : i <= j]>>, FALSE)
    ELSE Entries(<<>>, sub.raises)

\* root_entry.GetSubFileEntryByName(current_part): the first entry of that
\* exact name
GetSubFileEntryByName(ctx, n, current_part) ==
    LET sub == SubFileEntries(ctx, n)
    IN  Lookup(sub, {i \in 1..Len(sub.items) : ctx.T[sub.items[i]].name = current_part})

\* the fallback loop: the first entry whose lowered name is the lowered segment
FirstLowerEqual(ctx, n, current_part) ==
    LET sub == SubFileEntries(ctx, n)
    IN  Lookup(sub, {i \in 1..Len(sub.items) :
                        Lower(ctx.T[sub.items[i]].name) = Lower(current_part)})

\* a bug this code could have: the case-sensitive lookup is skipped and only
\* the case-insensitive loop runs
FoundExactFallbackOnly(exact, fallback) == fallback

\* found_entries of the exact-segment branch: exact is the result of
\* GetSubFileEntryByName, fallback that of the loop run when it finds nothing
FoundExact(exact, fallback) ==
    IF exact.items # <<>> \/ exact.raises THEN exact ELSE fallback

\* found_entries of the embedded-wildcard branch; the enumeration is consumed
\* whole before any entry is recursed into
FoundByPattern(ctx, sub, current_part) ==
    IF sub.raises THEN Entries(<<>>, TRUE)
    ELSE Entries(SelectSeq(sub.items,
                           LAMBDA c : PatternMatch(Split(current_part, "*"), ctx.T[c].name)),
                 FALSE)

RECURSIVE recursive_search_and_extract(_, _, _, _, _, _)
RECURSIVE WalkLoop(_, _, _, _, _, _, _, _)

\* the loops that recurse into entries; skip: the bare-wildcard loop's test
\* for '.' and '..'
WalkLoop(ctx, sub, i, skip, remaining_parts, cur, info, st) ==
    IF st.exc # NoExc THEN st
    ELSE IF i > Len(sub.items) THEN (IF sub.raises THEN Raise(st, "enum") ELSE st)
    ELSE WalkLoop(ctx, sub, i + 1, skip, remaining_parts, cur, info,
             IF skip /\ IsPseudo(ctx.T[sub.items[i]].name)
             THEN st
             ELSE recursive_search_and_extract(ctx, sub.items[i], remaining_parts,
                      cur \o <<ctx.T[sub.items[i]].name>>, info, st))

\* which entries the try block recurses into, by the kind of segment
Candidates(ctx, n, current_part) ==
    IF current_part = <<"*">> THEN SubFileEntries(ctx, n)
    ELSE IF Contains(current_part, "*")
    THEN FoundByPattern(ctx, SubFileEntries(ctx, n), current_part)
    ELSE FoundExact(GetSubFileEntryByName(ctx, n, current_part),
                    FirstLowerEqual(ctx, n, current_part))

\* if category_key not in collected_paths: collected_paths[category_key] = []
EnsureKey(st, key) ==
    IF key \notin DOMAIN st.cp THEN [st EXCEPT !.cp = Put(@, key, <<>>)] ELSE st

\* a bug this code could have: the children of a node that is not a directory
\* are asked for, and the provider raises
WalkUnguarded(ctx, n, path_parts, cur, info, st) ==
    IF path_parts = <<>> THEN extract_item(ctx, n, cur, info, st)
    ELSE IF <<n, "type">> \in ctx.F THEN Raise(st, "type")
    ELSE IF ctx.T[n].kind # "dir"
         THEN Catch(Raise(st, "enum"), PathStr(ctx.cat), "read_dir", Join(cur, <<"/">>), <<>>)
    ELSE Catch(WalkLoop(ctx, Candidates(ctx, n, path_parts[1]), 1,
                        path_parts[1] = <<"*">>, Tail(path_parts), cur, info,
                        Logged(st, Event("list", n, cur, info, path_parts, <<>>))),
               PathStr(ctx.cat), "read_dir", Join(cur, <<"/">>), <<>>)

\* recursive_search_and_extract once the category's key is in the ledger
Walk(ctx, n, path_parts, cur, info, st) ==
    IF path_parts = <<>> THEN extract_item(ctx, n, cur, info, st)
    ELSE IF <<n, "type">> \in ctx.F THEN Raise(st, "type")
    ELSE IF ctx.T[n].kind # "dir" THEN st
    ELSE Catch(WalkLoop(ctx, Candidates(ctx, n, path_parts[1]), 1,
                        path_parts[1] = <<"*">>, Tail(path_parts), cur, info,
                        Logged(st, Event("list", n, cur, info, path_parts, <<>>))),
               PathStr(ctx.cat), "read_dir", Join(cur, <<"/">>), <<>>)

recursive_search_and_extract(ctx, n, path_parts, cur, info, st) ==
    Walk(ctx, n, path_parts, cur, info, EnsureKey(st, PathStr(ctx.cat)))

(***************************************************************************)
(* The rule catalog (artifacts.json): program identifier -> categories in  *)
(* declared order, each a name and its rule dicts in declared order.       *)
(***************************************************************************)
Category(name, rules) == [name |-> name, rules |-> rules]

PlusQ == <<"P","+","Q">>
UnderQ == <<"P","_","Q">>

\* C:\A\*\B.txt
PathAStarB == <<"C",":","\\","A","\\","*","\\","B",".","t","x","t">>
\* C:\A\x
PathAx == <<"C",":","\\","A","\\","x">>
\* C:\A\*
PathAStar == <<"C",":","\\","A","\\","*">>
\* C:\N
PathN == <<"C",":","\\","N">>
\* C:\n\o*
PathNo == <<"C",":","\\","n","\\","o","*">>
\* C:\D
PathD == <<"C",":","\\","D">>
\* C:\D\*\f
PathDStarF == <<"C",":","\\","D","\\","*","\\","f">>
\* C:\*\*
PathStarStar == <<"C",":","\\","*","\\","*">>
\* C:\{LLM_NAME}\*
PathLlmStar == <<"C",":","\\">> \o Placeholder \o <<"\\","*">>
\* C:\{LLM_NAME}
PathLlm == <<"C",":","\\">> \o Placeholder

Cookies == <<"C","o","o","k","i","e","s">>

GPT == <<"G","P","T">>
JAN == <<"J","A","N">>
LMS == <<"L","M","S">>
CLD == <<"C","L","D">>
MIS == <<"M","I","S">>
HeuristicsApi == <<"_","H","E","U","R","I","S","T","I","C","S","_","A","P","I">>
HeuristicsStandalone ==
    <<"_","H","E","U","R","I","S","T","I","C","S","_","S","T","A","N","D","A","L","O","N","E">>

LLM_ARTIFACTS ==
    (GPT :> <<Category(PlusQ, <<[path |-> PathAStarB, extract_from |-> <<"A">>],
                                 [path |-> PathAx, extract_from |-> <<"A">>]>>)>>)
    @@ (JAN :> <<Category(PlusQ, <<[path |-> PathAStar]>>),
                 Category(UnderQ, <<[path |-> PathAStarB, extract_from |-> <<"A">>]>>)>>)
    @@ (LMS :> <<Category(PlusQ, <<[path |-> PathN, extract_files |-> <<Cookies>>],
                                   [path |-> PathNo, extract_from |-> <<"N">>]>>)>>)
    @@ (CLD :> <<Category(PlusQ, <<[path |-> PathD, extract_from |-> <<"D">>]>>),
                 Category(UnderQ, <<[path |-> PathDStarF]>>)>>)
    @@ (MIS :> <<Category(PlusQ, <<[path |-> PathStarStar, extract_from |-> <<"f">>]>>)>>)
    @@ (HeuristicsApi :>
            <<Category(PlusQ, <<[path |-> PathLlmStar, extract_from |-> Placeholder]>>)>>)
    @@ (HeuristicsStandalone :>
            <<Category(PlusQ, <<[path |-> PathLlm, extract_files |-> <<Cookies, <<"F">>>>]>>)>>)

\* the command lines the model runs: LLM_NAME and MODE
Invocations ==
    {[llm_name |-> l, mode |-> "api"] : l \in {GPT, JAN, LMS, CLD, MIS}}
    \cup {[llm_name |-> l, mode |-> m] : l \in {<<"n">>, <<"d">>}, m \in {"api", "standalone"}}

(***************************************************************************)
(* main                                                                    *)
(***************************************************************************)
llm_name_upper == Upper(llm_name.llm_name)
is_heuristic_mode == llm_name_upper \notin DOMAIN LLM_ARTIFACTS

\* artifacts_to_extract for an invocation
ArtifactsToExtract(inv) ==
    IF Upper(inv.llm_name) \in DOMAIN LLM_ARTIFACTS
    THEN LLM_ARTIFACTS[Upper(inv.llm_name)]
    ELSE IF inv.mode = "api" THEN LLM_ARTIFACTS[HeuristicsApi]
    ELSE LLM_ARTIFACTS[HeuristicsStandalone]

\* category if not args.no_keep_plus else category.replace('+', '_')
CategoryKey(category) ==
    IF ~no_keep_plus THEN category ELSE Replace(category, "+", "_")

RECURSIVE BoundedSubsets(_, _)
BoundedSubsets(S, k) ==
    IF k = 0 THEN {{}}
    ELSE LET smaller == BoundedSubsets(S, k - 1)
         IN  smaller \cup {A \cup {x} : A \in smaller, x \in S}

FunIdle == arg = <<>> /\ res = <<>> /\ stage = "main"

Init ==
    /\ image \in 1..Len(Images)
    /\ faults \in BoundedSubsets(FaultSites(Images[image]), MaxFaults)
    /\ llm_name \in Invocations
    /\ no_keep_plus \in BOOLEAN
    /\ artifacts = ArtifactsToExtract(llm_name)
    /\ collected_paths = <<>>
    /\ out = <<>>
    /\ streams = <<>>
    /\ counter = 0
    /\ log = <<>>
    /\ ci = 1
    /\ ri = 1
    /\ pc = "category"
    /\ FunIdle

\* for category, artifacts in artifacts_to_extract.items(): ... collected_paths[category_key] = []
CategoryStart ==
    /\ pc = "category"
    /\ ci <= Len(artifacts)
    /\ collected_paths' = Put(collected_paths, CategoryKey(artifacts[ci].name), <<>>)
    /\ ri' = 1
    /\ pc' = "rule"
    /\ UNCHANGED <<image, faults, llm_name, no_keep_plus, artifacts, out, streams,
                   counter, log, ci, arg, res, stage>>

\* the rule dict after the loop body's assignment to it
ArtifactInfo(info) ==
    IF is_heuristic_mode THEN Put(info, "llm_name_placeholder", llm_name_upper) ELSE info

\* path_parts of a rule
PathParts(info) ==
    LET full_path == IF is_heuristic_mode
                     THEN ReplaceSub(info.path, Placeholder, llm_name_upper)
                     ELSE info.path
    IN  Split(normalize_path(full_path), "/")

\* the call main makes for rule r of category c, from ledger cp, output o and streams s
RunRule(T, F, category, info, cp, o, s) ==
    recursive_search_and_extract(
        [T |-> T, F |-> F, cat |-> CategoryKey(category)], 1, PathParts(info), <<>>,
        ArtifactInfo(info),
        [cp |-> cp, out |-> o, streams |-> s, count |-> 0, log |-> <<>>, exc |-> NoExc])

\* what one iteration of the rule loop leaves behind, r being the state the
\* call returned; an exception that leaves it ends main
RuleOutcome(r) ==
    /\ collected_paths' = r.cp
    /\ out' = r.out
    /\ streams' = r.streams
    /\ counter' = r.count
    /\ log' = r.log
    /\ IF r.exc # NoExc
       THEN pc' = "crashed" /\ ri' = ri
       ELSE pc' = "rule" /\ ri' = ri + 1

\* for artifact_info in artifacts: one whole iteration
RuleStep ==
    /\ pc = "rule"
    /\ ri <= Len(artifacts[ci].rules)
    /\ artifacts' = [artifacts EXCEPT ![ci].rules[ri] = ArtifactInfo(@)]
    /\ RuleOutcome(RunRule(Images[image], faults, artifacts[ci].name,
                           artifacts[ci].rules[ri], collected_paths, out, streams))
    /\ UNCHANGED <<image, faults, llm_name, no_keep_plus, ci, arg, res, stage>>

\* the rule loop is exhausted: progress.update(task, advance=1), next category
CategoryEnd ==
    /\ pc = "rule"
    /\ ri > Len(artifacts[ci].rules)
    /\ ci' = ci + 1
    /\ pc' = "category"
    /\ UNCHANGED <<image, faults, llm_name, no_keep_plus, artifacts, collected_paths,
                   out, streams, counter, log, ri, arg, res, stage>>

\* the category loop is exhausted: the ledger is handed to the report
Finish ==
    /\ pc = "category"
    /\ ci > Len(artifacts)
    /\ pc' = "done"
    /\ UNCHANGED <<image, faults, llm_name, no_keep_plus, artifacts, collected_paths,
                   out, streams, counter, log, ci, ri, arg, res, stage>>

Next == CategoryStart \/ RuleStep \/ CategoryEnd \/ Finish

Spec == Init /\ [][Next]_vars

(***************************************************************************)
(* Function specifications: one function of the program applied to inputs  *)
(* drawn from bounded sets.  main's variables stay as constructed.         *)
(***************************************************************************)
MainIdle ==
    /\ image = 1
    /\ faults = {}
    /\ llm_name = [llm_name |-> GPT, mode |-> "api"]
    /\ no_keep_plus = FALSE
    /\ artifacts = <<>>
    /\ collected_paths = <<>>
    /\ out = <<>>
    /\ streams = <<>>
    /\ counter = 0
    /\ log = <<>>
    /\ ci = 1
    /\ ri = 1
    /\ pc = "idle"

\* all sequences over S of length 0..n
RECURSIVE SeqsUpTo(_, _)
SeqsUpTo(S, n) ==
    IF n = 0 THEN {<<>>}
    ELSE LET shorter == SeqsUpTo(S, n - 1)
         IN  shorter \cup {Append(q, x) : q \in {r \in shorter : Len(r) = n - 1}, x \in S}

(* normalize_path, applied once and then to its own result *)
TemplateChars == {"c", ":", "\\", "/", "a"}

InitNorm ==
    /\ MainIdle
    /\ arg \in SeqsUpTo(TemplateChars, MaxTemplateLen)
    /\ res = <<>>
    /\ stage = "template"

NormalizeOnce ==
    /\ stage = "template"
    /\ res' = <<normalize_path(arg)>>
    /\ stage' = "once"
    /\ UNCHANGED <<arg, mainVars>>

NormalizeTwice ==
    /\ stage = "once"
    /\ res' = Append(res, normalize_path(res[1]))
    /\ stage' = "twice"
    /\ UNCHANGED <<arg, mainVars>>

NextNorm == NormalizeOnce \/ NormalizeTwice

SpecNorm == InitNorm /\ [][NextNorm]_vars

(* the embedded-wildcard branch of the walker over one directory *)
PatternChars == {"A", "*", "."}
NameChars == {"a", "A", "."}

\* CHATGPT*.PF, as normalize_path hands it to the walker
PatternChatgpt == <<"C","H","A","T","G","P","T","*",".","P","F">>
\* CHATGPT123.pf, MYCHATGPT1.pf, CHATGPT123.pfx
NamesChatgpt ==
    << <<"C","H","A","T","G","P","T","1","2","3",".","p","f">>,
       <<"M","Y","C","H","A","T","G","P","T","1",".","p","f">>,
       <<"C","H","A","T","G","P","T","1","2","3",".","p","f","x">> >>

EmbeddedPatterns ==
    {q \in SeqsUpTo(PatternChars, MaxNameLen) : Contains(q, "*") /\ q # <<"*">>}
    \cup {PatternChatgpt}

\* the directory whose children have these names, as a tree
DirectoryOf(names) ==
    <<Node(<<"\\">>, "dir", [i \in 1..Len(names) |-> i + 1])>>
    \o [i \in 1..Len(names) |-> Node(names[i], "file", <<>>)]

InitMatch ==
    /\ MainIdle
    /\ arg \in {[pattern |-> q, names |-> <<nm>>] :
                   q \in EmbeddedPatterns, nm \in SeqsUpTo(NameChars, MaxNameLen) \ {<<>>}}
               \cup {[pattern |-> PatternChatgpt, names |-> NamesChatgpt]}
    /\ res = <<>>
    /\ stage = "pattern"

\* found_entries for the directory, as names
MatchSegment ==
    /\ stage = "pattern"
    /\ res' = LET ctx == [T |-> DirectoryOf(arg.names), F |-> {}, cat |-> PlusQ]
                  found == FoundByPattern(ctx, SubFileEntries(ctx, 1), arg.pattern)
              IN  [i \in 1..Len(found.items) |-> ctx.T[found.items[i]].name]
    /\ stage' = "matched"
    /\ UNCHANGED <<arg, mainVars>>

NextMatch == MatchSegment

SpecMatch == InitMatch /\ [][NextMatch]_vars

(* extract_item on a file node reached by a given path-so-far *)
AnchorNames == {<<"a">>, <<"A">>, <<"b">>, <<"a", "b">>}

\* ['Users','bob','AppData','Cache','Cache_Data','index']
PathCacheData ==
    << <<"U","s","e","r","s">>, <<"b","o","b">>, <<"A","p","p","D","a","t","a">>,
       <<"C","a","c","h","e">>, <<"C","a","c","h","e","_","D","a","t","a">> , <<"i","n","d","e","x">> >>
CacheData == <<"C","a","c","h","e","_","D","a","t","a">>

\* the rule dicts: an anchor declared, or none
AnchorInfos ==
    {[path |-> <<>>, extract_from |-> a] : a \in AnchorNames \cup {CacheData, <<"z">>}}
    \cup {[path |-> <<>>]}

\* the chain of directories named by cur, ending in a file
ChainOf(cur) ==
    <<Node(<<"\\">>, "dir", <<2>>)>>
    \o [i \in 1..Len(cur) |->
           IF i < Len(cur) THEN Node(cur[i], "dir", <<i + 2>>) ELSE Node(cur[i], "file", <<>>)]

InitAnchor ==
    /\ MainIdle
    /\ arg \in {[cur |-> c, info |-> i] :
                   c \in (SeqsUpTo(AnchorNames, MaxPathLen) \ {<<>>}) \cup {PathCacheData},
                   i \in AnchorInfos}
    /\ res = <<>>
    /\ stage = "match"

\* the events of extract_item(entry, ..., current_path_parts = arg.cur, artifact_info = arg.info)
ExtractMatch ==
    /\ stage = "match"
    /\ res' = extract_item([T |-> ChainOf(arg.cur), F |-> {}, cat |-> PlusQ],
                           Len(arg.cur) + 1, arg.cur, arg.info,
                           [cp |-> (PlusQ :> <<>>), out |-> <<>>, streams |-> <<>>,
                            count |-> 0, log |-> <<>>, exc |-> NoExc]).log
    /\ stage' = "extracted"
    /\ UNCHANGED <<arg, mainVars>>

NextAnchor == ExtractMatch

SpecAnchor == InitAnchor /\ [][NextAnchor]_vars

(* the exact-segment branch of the walker over one directory *)
MaxSegLen == 2
MaxKids == 2

\* segments reach the walker in upper case (normalize_path)
SegmentChars == {"A"}
ChildChars == {"a", "A", "b"}

\* the lists of at most n different names from S
RECURSIVE DistinctSeqs(_, _)
DistinctSeqs(S, n) ==
    IF n = 0 THEN {<<>>}
    ELSE LET shorter == DistinctSeqs(S, n - 1)
         IN  shorter \cup {Append(q[1], q[2]) :
                              q \in {r \in {t \in shorter : Len(t) = n - 1} \X S :
                                         \A i \in 1..Len(r[1]) : r[1][i] # r[2]}}

InitExact ==
    /\ MainIdle
    /\ arg \in {[segment |-> q, names |-> ns] :
                   q \in SeqsUpTo(SegmentChars, MaxSegLen) \ {<<>>},
                   ns \in DistinctSeqs(SeqsUpTo(ChildChars, MaxSegLen) \ {<<>>}, MaxKids)}
    /\ res = <<>>
    /\ stage = "segment"

\* found_entries for the directory, as positions in its enumeration
ExactSegment ==
    /\ stage = "segment"
    /\ res' = LET ctx == [T |-> DirectoryOf(arg.names), F |-> {}, cat |-> PlusQ]
                  found == Candidates(ctx, 1, arg.segment)
              IN  [i \in 1..Len(found.items) |-> found.items[i] - 1]
    /\ stage' = "found"
    /\ UNCHANGED <<arg, mainVars>>

NextExact == ExactSegment

SpecExact == InitExact /\ [][NextExact]_vars

(* the walker called on one node of an image with segments remaining *)
MaxParts == 2

\* the segments that can remain
RemainingSegments == {<<"*">>, <<"F">>}

\* the ledgers the call can find: no key, the category's key with no entry,
\* the category's key with an entry of an earlier rule
LedgersBefore ==
    {<<>>, (PlusQ :> <<>>),
     (PlusQ :> <<Entry("ok", OriginalFullPath(<< <<"W">> >>), <<>>, "")>>)}

InitReach ==
    /\ image \in 1..Len(Images)
    /\ faults \in BoundedSubsets(FaultSites(Images[image]), MaxFaults)
    /\ llm_name = [llm_name |-> GPT, mode |-> "api"]
    /\ no_keep_plus = FALSE
    /\ artifacts = <<>>
    /\ collected_paths \in LedgersBefore
    /\ out = <<>>
    /\ streams = <<>>
    /\ counter = 0
    /\ log = <<>>
    /\ ci = 1
    /\ ri = 1
    /\ pc = "idle"
    /\ arg \in {[node |-> n, path_parts |-> p] :
                   n \in {m \in DOMAIN Images[image] : ~IsPseudo(Images[image][m].name)},
                   p \in SeqsUpTo(RemainingSegments, MaxParts) \ {<<>>}}
    /\ res = <<>>
    /\ stage = "reach"

\* recursive_search_and_extract(node, path_parts, ...) for a rule without
\* anchor, the path so far being the node's name; res is the state it returns
Reach ==
    /\ stage = "reach"
    /\ res' = recursive_search_and_extract(
                  [T |-> Images[image], F |-> faults, cat |-> PlusQ],
                  arg.node, arg.path_parts, <<Images[image][arg.node].name>>,
                  [path |-> PathAStar],
                  [cp |-> collected_paths, out |-> out, streams |-> streams,
                   count |-> 0, log |-> <<>>, exc |-> NoExc])
    /\ stage' = "returned"
    /\ UNCHANGED <<arg, mainVars>>

NextReach == Reach

SpecReach == InitReach /\ [][NextReach]_vars

(* one rule over the image whose directory D enumerates '.' and '..' *)
\* the characters of the segment that follows C:\D in a template
DotChars == {".", "*"}

\* the allow-lists of the rules with extract_files
DotLists == {<< <<".">> >>, << <<".", ".">> >>, << <<"f">>, <<".">> >>}

\* the rules: C:\D\<segment> for every segment over DotChars, and C:\D with
\* each allow-list
DotRules ==
    {[path |-> PathD \o <<"\\">> \o q] : q \in SeqsUpTo(DotChars, MaxSegLen) \ {<<>>}}
    \cup {[path |-> PathD, extract_files |-> l] : l \in DotLists}

InitDots ==
    /\ image = 3
    /\ faults \in BoundedSubsets(FaultSites(Images[image]), MaxFaults)
    /\ llm_name = [llm_name |-> GPT, mode |-> "api"]
    /\ no_keep_plus = FALSE
    /\ artifacts = <<>>
    /\ collected_paths = <<>>
    /\ out = <<>>
    /\ streams = <<>>
    /\ counter = 0
    /\ log = <<>>
    /\ ci = 1
    /\ ri = 1
    /\ pc = "idle"
    /\ arg \in DotRules
    /\ res = <<>>
    /\ stage = "rule"

\* main's call of recursive_search_and_extract for the rule; res is the state
\* the call returns
Traverse ==
    /\ stage = "rule"
    /\ res' = RunRule(Images[image], faults, PlusQ, arg, collected_paths, out, streams)
    /\ stage' = "traversed"
    /\ UNCHANGED <<arg, mainVars>>

NextDots == Traverse

SpecDots == InitDots /\ [][NextDots]_vars

(***************************************************************************)
(* Claims                                                                  *)
(***************************************************************************)

\* the whole of name matches the pieces, each '*' standing for zero or more
\* characters, letters compared without case
RECURSIVE FullNameMatch(_, _)
FullNameMatch(pieces, name) ==
    IF Len(pieces) = 1
    THEN Len(name) = Len(pieces[1]) /\ LiteralAt(pieces[1], name)
    ELSE /\ LiteralAt(pieces[1], name)
         /\ \E k \in Len(pieces[1])..Len(name) :
                FullNameMatch(Tail(pieces), SubSeq(name, k + 1, Len(name)))

\* C1: an embedded-wildcard segment selects exactly the children whose full
\* name matches the pattern case-insensitively; a name that only starts with
\* a match (CHATGPT123.pfx for CHATGPT*.pf) is not selected.
C1_FullNameSelected ==
    stage = "matched" =>
        res = SelectSeq(arg.names,
                        LAMBDA nm : FullNameMatch(Split(arg.pattern, "*"), nm))

\* a template that starts with a drive letter, ':' and a separator
DrivePrefixed(t) ==
    /\ Len(t) >= 3
    /\ t[1] \in {"c", "a"}
    /\ t[2] = ":"
    /\ t[3] \in {"\\", "/"}

\* C2: for a template with a drive-letter-style prefix, normalize_path strips
\* exactly the prefix, and normalizing its result again changes nothing.
C2_StripsPrefixIdempotent ==
    (stage = "twice" /\ DrivePrefixed(arg)) =>
        /\ res[1] = LStrip(Upper(Replace(SubSeq(arg, 3, Len(arg)), "\\", "/")), "/")
        /\ res[2] = res[1]

\* the events of a log with a given op
EventsOf(l, op) == SelectSeq(l, LAMBDA e : e.op = op)

\* the segments of cur equal to the declared anchor, letters compared without case
AnchorHits(cur, info) ==
    IF "extract_from" \in DOMAIN info
    THEN {i \in 1..Len(cur) : Lower(cur[i]) = Lower(info.extract_from)}
    ELSE {}

Last(S) == CHOOSE i \in S : \A j \in S : j <= i

\* C3: the output-relative path extract_item computes is the suffix of the
\* path-so-far that starts at the LAST segment equal to the anchor
\* (case-insensitively, original case kept); with no such segment, or no
\* anchor declared, it is the one-element sequence of the node's own name.
C3_AnchorSuffix ==
    stage = "extracted" =>
        /\ Len(EventsOf(res, "plan")) = 1
        /\ EventsOf(res, "plan")[1].rel =
              IF AnchorHits(arg.cur, arg.info) # {}
              THEN SubSeq(arg.cur, Last(AnchorHits(arg.cur, arg.info)), Len(arg.cur))
              ELSE <<arg.cur[Len(arg.cur)]>>

\* C3 witness: the anchor occurs twice, in different case, and the suffix
\* starts at the second occurrence
C3_Witness ==
    /\ stage = "extracted"
    /\ arg.cur = << <<"a">>, <<"A">>, <<"b">> >>
    /\ arg.info = [path |-> <<>>, extract_from |-> <<"a">>]
    /\ EventsOf(res, "plan")[1].rel = << <<"A">>, <<"b">> >>

\* a rule of category ci has just run: log and counter are that rule's
RuleRan == pc = "crashed" \/ (pc = "rule" /\ ri > 1)

\* the ledger key of the category the loop is in
LastKey == CategoryKey(artifacts[ci].name)

\* the original path a ledger entry speaks about, written as success entries
\* write it (the walker's failure entries lack the leading '/')
EntryPath(e) == IF e.tag = "read_dir" THEN <<"/">> \o e.path ELSE e.path

\* C4: within one category, no original path has both a success entry and a
\* failure entry; a file whose copy failed is not also listed as a success.
C4_SuccessFailureExclusive ==
    \A key \in DOMAIN collected_paths :
        \A i, j \in 1..Len(collected_paths[key]) :
            ~ /\ collected_paths[key][i].tag = "ok"
              /\ collected_paths[key][j].tag # "ok"
              /\ EntryPath(collected_paths[key][j]) = collected_paths[key][i].path

\* C5: the entry list of each category never holds the same string twice,
\* whatever rules have run; recording an entry that is already present does
\* not lengthen the list.
C5_NoDuplicateEntries ==
    \A key \in DOMAIN collected_paths :
        \A i, j \in 1..Len(collected_paths[key]) :
            collected_paths[key][i] = collected_paths[key][j] => i = j

\* position of the success entry for path-so-far cur in a list, 0 if absent
OkIndex(list, cur) ==
    LET hits == {i \in 1..Len(list) :
                    list[i] = Entry("ok", OriginalFullPath(cur), <<>>, "")}
    IN  IF hits = {} THEN 0 ELSE CHOOSE i \in hits : TRUE

\* C5 witness: the rule just run extracted two nodes in one order while their
\* entries stand in the other, so the later call met its path already
\* recorded by an earlier rule of the category
C5_Witness ==
    /\ RuleRan
    /\ \E i, j \in 1..Len(log) :
          /\ i < j
          /\ log[i].op = "call" /\ log[j].op = "call"
          /\ OkIndex(collected_paths[LastKey], log[j].path) > 0
          /\ OkIndex(collected_paths[LastKey], log[j].path)
                < OkIndex(collected_paths[LastKey], log[i].path)
    /\ C5_NoDuplicateEntries

\* C6: the ledger is append-only: between two successive steps of main's
\* loops no key disappears and no entry recorded under a key is lost,
\* for every catalog and every setting of no_keep_plus.
C6_LedgerAppendOnly ==
    [][\A key \in DOMAIN collected_paths :
          /\ key \in DOMAIN collected_paths'
          /\ \A i \in 1..Len(collected_paths[key]) :
                InList(collected_paths'[key], collected_paths[key][i])]_vars

\* the directory whose enumeration yields node n
ParentOf(T, n) ==
    CHOOSE p \in DOMAIN T :
        ~IsPseudo(T[p].name) /\ \E k \in 1..Len(T[p].kids) : T[p].kids[k] = n

\* the kinds of fault that are an error raised while a file is extracted
FileErrorKinds == {"type", "mkdir", "getobj", "outopen", "copy"}

\* the children of directory p the provider yields after child n
LaterSiblings(T, p, n) ==
    {T[p].kids[k] : k \in {j \in 1..Len(T[p].kids) :
                              \E i \in 1..(j - 1) : T[p].kids[i] = n}}

IsPrefix(s, t) == Len(s) <= Len(t) /\ SubSeq(t, 1, Len(s)) = s

\* C8: an error raised while file node F is extracted is recorded as a
\* failure entry naming F's original path and does not unwind past F: main
\* goes on, and every sibling the directory copy enumerates after F is still
\* extracted.
C8_FileErrorsContained ==
    RuleRan =>
        \A i \in 1..Len(log) :
            (/\ log[i].op = "call"
             /\ Images[image][log[i].node].kind = "file"
             /\ \E k \in FileErrorKinds : <<log[i].node, k>> \in faults)
            => /\ \E e \in 1..Len(collected_paths[LastKey]) :
                     /\ collected_paths[LastKey][e].tag # "ok"
                     /\ collected_paths[LastKey][e].path = OriginalFullPath(log[i].path)
               /\ pc # "crashed"
               /\ \A m \in 1..Len(log) :
                     (/\ log[m].op = "mkdir"
                      /\ log[m].node = ParentOf(Images[image], log[i].node)
                      /\ log[m].path \o <<Images[image][log[i].node].name>> = log[i].path
                      /\ <<log[m].node, "enum0">> \notin faults
                      /\ <<log[m].node, "enum1">> \notin faults)
                     => \A s \in LaterSiblings(Images[image], log[m].node, log[i].node) :
                            \E c \in 1..Len(log) :
                                log[c].op = "call" /\ log[c].node = s

\* C9: a directory copy preserves the subtree: when a directory of path-so-far
\* p is placed at location L, every node of path-so-far p \o r the same rule
\* extracts is placed at L \o r, whether or not the rule declares an anchor.
C9_SubtreePreserved ==
    RuleRan =>
        \A m, e \in 1..Len(log) :
            (/\ log[m].op = "mkdir"
             /\ log[e].op = "plan"
             /\ IsPrefix(log[m].path, log[e].path))
            => log[e].loc = log[m].loc
                               \o SubSeq(log[e].path, Len(log[m].path) + 1, Len(log[e].path))

\* the rule that has just run
LastRule == artifacts[ci].rules[IF pc = "crashed" THEN ri ELSE ri - 1]

\* target_files_upper, as a set
AllowList(info) == {Upper(info.extract_files[j]) : j \in 1..Len(info.extract_files)}

\* an allow-list rule has just run and each of its terminal matches is a directory
AllowListRuleRan ==
    /\ RuleRan
    /\ "extract_files" \in DOMAIN LastRule
    /\ \A d \in 1..Len(log) :
          (log[d].op = "call" /\ "extract_files" \in DOMAIN log[d].info)
          => Images[image][log[d].node].kind = "dir"

\* event e of the log is about the node at depth levels below a terminal
\* match D of the allow-list rule, inside an allow-listed child of D
BelowAllowListed(e, depth) ==
    \E d \in 1..Len(log) :
        /\ log[d].op = "call"
        /\ "extract_files" \in DOMAIN log[d].info
        /\ IsPrefix(log[d].path, log[e].path)
        /\ Len(log[e].path) - Len(log[d].path) \in depth
        /\ Upper(log[e].path[Len(log[d].path) + 1]) \in AllowList(log[d].info)

\* C10, as first stated: for an allow-list rule resolving to directory D, the
\* only nodes given an output location or written are immediate children of D
\* with an allow-listed name.
C10_ImmediateChildrenOnly ==
    AllowListRuleRan =>
        \A e \in 1..Len(log) :
            log[e].op \in {"plan", "write", "mkdir"} => BelowAllowListed(e, {1})

\* C10: for an allow-list rule resolving to directory D, the only nodes
\* written are the immediate children of D with an allow-listed name
\* (compared without case), each placed at category/<child name>, and the
\* descendants of such a child that is a directory; D itself and the
\* children of D that are not listed produce no output.
C10_AllowListOnly ==
    AllowListRuleRan =>
        /\ \A e \in 1..Len(log) :
              log[e].op \in {"plan", "write", "mkdir"} =>
                  /\ BelowAllowListed(e, 1..Len(log[e].path))
                  /\ (log[e].op = "plan" /\ BelowAllowListed(e, {1}))
                     => log[e].loc = <<LastKey, log[e].path[Len(log[e].path)]>>
        /\ (ci = 1 /\ ri = 2 /\ pc = "rule") =>
              \A loc \in DOMAIN out :
                  loc = <<LastKey>>
                  \/ (Len(loc) >= 2 /\ Upper(loc[2]) \in AllowList(LastRule))

\* C10 witness: on N/{Cookies, Other, cookies/{k}, lnk} the allow-list rule
\* for Cookies has written the file Cookies and the directory cookies with
\* its file k, and nothing for N or Other
C10_Witness ==
    /\ AllowListRuleRan
    /\ image = 2 /\ ci = 1 /\ ri = 2 /\ pc = "rule"
    /\ IsFileAt(out, <<LastKey, Cookies>>)
    /\ IsFileAt(out, <<LastKey, Lower(Cookies), <<"k">> >>)
    /\ \A loc \in DOMAIN out : Len(loc) >= 2 => Upper(loc[2]) = Upper(Cookies)

\* the two ways the enumeration of directory D can raise
EnumFaultsOf(D) == {<<D, "enum0">>, <<D, "enum1">>}

\* the tree with the children of D replaced
CutTree(T, D, kids) == [T EXCEPT ![D].kids = kids]

\* the rule loop is about to run rule ri of category ci
RuleDue == pc = "rule" /\ ri <= Len(artifacts[ci].rules)

\* what the walker sees when it lists node D for segment seg in this run
Listing(D, seg) ==
    Candidates([T |-> Images[image], F |-> faults, cat |-> LastKey], D, seg)

\* list event ev is the walker listing a directory whose enumeration is
\* faulty and raises before the walker is done with it
ListingRaises(ev) ==
    /\ ev.op = "list"
    /\ EnumFaultsOf(ev.node) \cap faults # {}
    /\ Listing(ev.node, ev.rel[1]).raises

\* the rule due, run instead on a tree where directory D enumerates kids
\* without error
RunWithChildren(D, kids) ==
    RunRule(CutTree(Images[image], D, kids), faults \ EnumFaultsOf(D),
            artifacts[ci].name, artifacts[ci].rules[ri], collected_paths, out, streams)

\* a ledger list without the walker's failure entries for path-so-far cur
WithoutReadFailure(list, cur) ==
    SelectSeq(list, LAMBDA e : ~(e.tag = "read_dir" /\ e.path = Join(cur, <<"/">>)))

\* the step just taken left what the run b leaves, the walker's failure
\* entries for cur apart
SameButReadFailure(b, cur) ==
    /\ out' = b.out
    /\ streams' = b.streams
    /\ counter' = b.count
    /\ b.exc = NoExc
    /\ DOMAIN collected_paths' = DOMAIN b.cp
    /\ \A key \in DOMAIN b.cp :
          WithoutReadFailure(collected_paths'[key], cur) = WithoutReadFailure(b.cp[key], cur)

\* the walker's failure entry for path-so-far cur is in the ledger after the
\* step, and the error did not reach main
FailureRecorded(cur) ==
    /\ pc' # "crashed"
    /\ \E e \in 1..Len(collected_paths'[LastKey]) :
          /\ collected_paths'[LastKey][e].tag = "read_dir"
          /\ collected_paths'[LastKey][e].path = Join(cur, <<"/">>)

\* C7: when the enumeration of directory D raises while the walker lists it,
\* a failure entry keyed by D's path-so-far is recorded, the error does not
\* reach the caller, and the rule leaves the same ledger entries and outputs
\* as it would if D's enumeration had ended without error after the children
\* the walker had already recursed into.
C7_FailSoftEnumeration ==
    [][RuleDue =>
          \A i \in 1..Len(log') :
              ListingRaises(log'[i]) =>
                  /\ FailureRecorded(log'[i].path)
                  /\ SameButReadFailure(
                         RunWithChildren(log'[i].node,
                                         Listing(log'[i].node, log'[i].rel[1]).items),
                         log'[i].path)]_vars

\* C7 witness: a rule has run in which the walker's listing of a directory
\* raised, the failure entry is recorded, and a node outside that directory
\* was extracted afterwards
C7_Witness ==
    /\ RuleRan
    /\ pc = "rule"
    /\ \E i, j \in 1..Len(log) :
          /\ ListingRaises(log[i])
          /\ \E e \in 1..Len(collected_paths[LastKey]) :
                collected_paths[LastKey][e] =
                    Entry("read_dir", Join(log[i].path, <<"/">>), <<>>, "enum")
          /\ i < j
          /\ log[j].op = "write"
          /\ ~IsPrefix(log[i].path, log[j].path)

\* the nodes of the subtree of n, n included
RECURSIVE Under(_, _)
Under(T, n) ==
    {n} \cup UNION {Under(T, T[n].kids[k]) :
                       k \in {j \in 1..Len(T[n].kids) : ~IsPseudo(T[T[n].kids[j]].name)}}

\* the ledger entries of a list that are not about path-so-far cur or below
OutsideEntries(list, cur) ==
    SelectSeq(list, LAMBDA e :
        ~ \/ cur = <<>>
          \/ EntryPath(e) = OriginalFullPath(cur)
          \/ IsPrefix(OriginalFullPath(cur) \o <<"/">>, EntryPath(e)))

\* the files of an output tree that do not come from the subtree of node D
OutsideFiles(o, D) ==
    {<<loc, o[loc]>> : loc \in {l \in DOMAIN o :
                                   o[l].kind = "file"
                                   /\ o[l].src \notin Under(Images[image], D)}}

\* outside directory D, the step just taken left what the run b leaves
SameOutside(b, D, cur) ==
    /\ OutsideFiles(out', D) = OutsideFiles(b.out, D)
    /\ DOMAIN collected_paths' = DOMAIN b.cp
    /\ \A key \in DOMAIN b.cp :
          OutsideEntries(collected_paths'[key], cur) = OutsideEntries(b.cp[key], cur)

\* C7, as first stated: when the enumeration of directory D raises while the
\* walker lists it, the failure entry is recorded, the error does not reach
\* the caller, and every branch outside D yields the ledger entries and the
\* outputs it would yield if D had no children.
C7_AsIfNoChildren ==
    [][RuleDue =>
          \A i \in 1..Len(log') :
              ListingRaises(log'[i]) =>
                  /\ FailureRecorded(log'[i].path)
                  /\ SameOutside(RunWithChildren(log'[i].node, <<>>),
                                 log'[i].node, log'[i].path)]_vars

\* the path-so-far of A/x/B.txt and of A/y
PathOfB == << <<"A">>, <<"x">>, <<"B",".","t","x","t">> >>
PathOfY == << <<"A">>, <<"y">> >>

\* the rule {path: 'C:\A\*\B.txt', extract_from: 'A'} has just run, first of
\* its category, on A/{x/{B.txt}, y/{}} with no error
WildcardWalkRan ==
    /\ RuleRan /\ pc = "rule" /\ ri = 2
    /\ image = 1 /\ faults = {}
    /\ LastRule.path = PathAStarB
    /\ "extract_from" \in DOMAIN LastRule /\ LastRule.extract_from = <<"A">>

\* C11: the rule {path: 'C:\A\*\B.txt', extract_from: 'A'} on A/{x/{B.txt}, y/{}}
\* ends with exactly one ledger entry in its category, the success path
\* /A/x/B.txt, and one output file, at <category>/A/x/B.txt; the branch
\* through y adds no entry and no output.
C11_WildcardWalk ==
    WildcardWalkRan =>
        /\ collected_paths[LastKey] = <<Entry("ok", OriginalFullPath(PathOfB), <<>>, "")>>
        /\ IsFileAt(out, <<LastKey>> \o PathOfB)
        /\ out[<<LastKey>> \o PathOfB] = Written("file", 4, TRUE)
        /\ Len(EventsOf(log, "write")) = 1
        /\ EventsOf(log, "write")[1].loc = <<LastKey>> \o PathOfB
        /\ \A loc \in DOMAIN out :
              (IsFileAt(out, loc) /\ IsPrefix(<<LastKey, <<"A">> >>, loc))
              => loc = <<LastKey>> \o PathOfB
        /\ \A e \in 1..Len(log) :
              log[e].op \in {"call", "plan", "write", "mkdir"}
              => ~IsPrefix(PathOfY, log[e].path)

\* C11 witness: program GPT has run the rule and B.txt is in the output tree
C11_Witness ==
    /\ WildcardWalkRan
    /\ llm_name.llm_name = GPT
    /\ IsFileAt(out, <<LastKey>> \o PathOfB)
    /\ Len(collected_paths[LastKey]) = 1

\* C12: an exact segment selects at most one child: the child whose name is
\* the normalized segment, case-sensitively, if there is one; otherwise the
\* first child in enumeration order whose name equals it without case;
\* otherwise none.
C12_ExactSelectsOne ==
    stage = "found" =>
        LET same == {i \in 1..Len(arg.names) : arg.names[i] = arg.segment}
            alike == {i \in 1..Len(arg.names) : Lower(arg.names[i]) = Lower(arg.segment)}
        IN  /\ Len(res) <= 1
            /\ res = IF same # {} THEN <<CHOOSE i \in same : TRUE>>
                     ELSE IF alike # {}
                          THEN <<CHOOSE i \in alike : \A j \in alike : i <= j>>
                          ELSE <<>>

\* C12 witness: the children a and A differ from segment A only by case, and
\* the second, which equals it, is the one selected
C12_Witness ==
    /\ stage = "found"
    /\ arg.segment = <<"A">>
    /\ arg.names = << <<"a">>, <<"A">> >>
    /\ res = <<2>>

\* the nodes the walker handed to extract_item from its listing l of a
\* directory, in the order of the calls
RecursedInto(l) ==
    LET calls == SelectSeq(log, LAMBDA e :
                     /\ e.op = "call"
                     /\ Len(e.path) = Len(l.path) + 1
                     /\ IsPrefix(l.path, e.path))
    IN  [i \in 1..Len(calls) |-> calls[i].node]

\* the walker's listing l is of a trailing bare wildcard over a directory
\* whose enumeration does not raise
BareWildcardListing(l) ==
    /\ l.op = "list"
    /\ l.rel = << <<"*">> >>
    /\ EnumFaultsOf(l.node) \cap faults = {}

\* C13: a bare wildcard over a directory recurses into exactly its children
\* other than '.' and '..', each once and in enumeration order.
C13_BareWildcardAll ==
    RuleRan =>
        \A i \in 1..Len(log) :
            BareWildcardListing(log[i]) =>
                RecursedInto(log[i]) =
                    SelectSeq(Images[image][log[i].node].kids,
                              LAMBDA c : ~IsPseudo(Images[image][c].name))

\* location loc of the output tree is <category key>/<a suffix of the
\* segments of original path p>
PlacesPath(key, loc, p) ==
    /\ Len(loc) >= 2
    /\ loc[1] = key
    /\ \E k \in 1..Len(p) :
          p[k] = "/" /\ SubSeq(p, k + 1, Len(p)) = Join(Tail(loc), <<"/">>)

\* C14: every success entry of the finalized ledger has its output: a file
\* or directory exists below the category's directory at an output-relative
\* path of the node, allow-list parent directories, nodes that are neither
\* file nor directory and files whose stream could not be opened included.
C14_SuccessHasOutput ==
    pc = "done" =>
        \A key \in DOMAIN collected_paths :
            \A i \in 1..Len(collected_paths[key]) :
                collected_paths[key][i].tag = "ok" =>
                    \E loc \in DOMAIN out :
                        PlacesPath(key, loc, collected_paths[key][i].path)

\* the nodes of the subtree of n depth-first, children in enumeration order,
\* '.' and '..' left out
RECURSIVE Preorder(_, _)
RECURSIVE PreorderKids(_, _, _)
Preorder(T, n) == <<n>> \o PreorderKids(T, T[n].kids, 1)
PreorderKids(T, kids, i) ==
    IF i > Len(kids) THEN <<>>
    ELSE (IF IsPseudo(T[kids[i]].name) THEN <<>> ELSE Preorder(T, kids[i]))
         \o PreorderKids(T, kids, i + 1)

\* position of node n in a sequence of nodes that holds it
PositionIn(order, n) == CHOOSE i \in 1..Len(order) : order[i] = n

\* the nodes of the events of l in which the walker lists a directory or the
\* copier is handed a node, in the order of l
Visited(l) ==
    LET v == SelectSeq(l, LAMBDA e : e.op \in {"list", "call"})
    IN  [i \in 1..Len(v) |-> v[i].node]

\* the nodes of visits are met in strictly depth-first order
DepthFirst(visits, order) ==
    \A i, j \in 1..Len(visits) :
        i < j => PositionIn(order, visits[i]) < PositionIn(order, visits[j])

\* the success entries for the calls of l whose type query does not raise,
\* in the order of the calls, those already in list old left out
SuccessesOf(l, old) ==
    LET c == SelectSeq(l, LAMBDA e :
                 /\ e.op = "call"
                 /\ <<e.node, "type">> \notin faults
                 /\ ~InList(old, Entry("ok", OriginalFullPath(e.path), <<>>, "")))
    IN  [i \in 1..Len(c) |-> Entry("ok", OriginalFullPath(c[i].path), <<>>, "")]

\* the success entries of list new that list old does not hold, in order
NewSuccesses(new, old) ==
    SelectSeq(new, LAMBDA e : e.tag = "ok" /\ ~InList(old, e))

\* the keys of the first n categories of the catalog
KeysUpTo(n) == {CategoryKey(artifacts[c].name) : c \in 1..n}

\* C15: categories are processed in declared order and the rules of a
\* category in declared order; within a rule the nodes are visited
\* depth-first in the provider's enumeration order; so the success entries a
\* rule appends to its category's list stand in the order of that visit.
C15_ProcessingOrder ==
    [][/\ ci' \in {ci, ci + 1}
       /\ ci' = ci + 1 => (pc = "rule" /\ ri > Len(artifacts[ci].rules))
       /\ (pc = "category" /\ pc' = "rule") =>
              /\ ri' = 1
              /\ DOMAIN collected_paths' = KeysUpTo(ci)
       /\ RuleDue =>
              /\ ci' = ci
              /\ ri' = ri + 1 \/ pc' = "crashed"
              /\ DepthFirst(Visited(log'), Preorder(Images[image], 1))
              /\ NewSuccesses(collected_paths'[LastKey], collected_paths[LastKey])
                    = SuccessesOf(log', collected_paths[LastKey])]_vars

\* C15 witness: the rule C:\A\* has run on A/{x/{B.txt}, y/{}}: the subtree of
\* x is recorded before its sibling y
C15_Witness ==
    /\ RuleRan
    /\ image = 1
    /\ collected_paths[LastKey] =
          <<Entry("ok", OriginalFullPath(<< <<"A">>, <<"x">> >>), <<>>, ""),
            Entry("ok", OriginalFullPath(PathOfB), <<>>, ""),
            Entry("ok", OriginalFullPath(PathOfY), <<>>, "")>>


\* C16: whatever the provider and output errors, no exception escapes the
\* category and rule loop, and when the loop has ended the ledger holds a key
\* for every category of the catalog.
C16_RunCompletes ==
    /\ pc # "crashed"
    /\ pc = "done" => KeysUpTo(Len(artifacts)) \subseteq DOMAIN collected_paths


\* C17: every byte stream extract_item obtained from a file node is closed
\* when extract_item has returned, so between two rules and after the run no
\* stream is open.
C17_StreamsReleased == streams = <<>>


\* category.replace('+', '_')
Fold(category) == Replace(category, "+", "_")

\* the category and rule loop of main as one function: the state it leaves
\* when run with folding fold from rule r of category c in state st; r = 0
\* stands for the head of the category loop
RECURSIVE RunFrom(_, _, _, _)
RunFrom(fold, c, r, st) ==
    IF st.exc # NoExc \/ c > Len(ArtifactsToExtract(llm_name)) THEN st
    ELSE IF r = 0
    THEN RunFrom(fold, c, 1,
             [st EXCEPT !.cp = Put(@, IF fold THEN Fold(ArtifactsToExtract(llm_name)[c].name)
                                      ELSE ArtifactsToExtract(llm_name)[c].name, <<>>)])
    ELSE IF r > Len(ArtifactsToExtract(llm_name)[c].rules) THEN RunFrom(fold, c + 1, 0, st)
    ELSE RunFrom(fold, c, r + 1,
             recursive_search_and_extract(
                 [T |-> Images[image], F |-> faults,
                  cat |-> IF fold THEN Fold(ArtifactsToExtract(llm_name)[c].name)
                          ELSE ArtifactsToExtract(llm_name)[c].name],
                 1, PathParts(ArtifactsToExtract(llm_name)[c].rules[r]), <<>>,
                 ArtifactInfo(ArtifactsToExtract(llm_name)[c].rules[r]),
                 [st EXCEPT !.count = 0, !.log = <<>>]))

\* the whole run with folding fold
RunOf(fold) ==
    RunFrom(fold, 1, 0, [cp |-> <<>>, out |-> <<>>, streams |-> <<>>, count |-> 0,
                         log |-> <<>>, exc |-> NoExc])

\* an output location with its category name folded
FoldLoc(loc) == IF loc = <<>> THEN loc ELSE <<Fold(loc[1])>> \o Tail(loc)

\* the entries of ledger cp, each with its category name, the category names
\* folded
FoldedEntries(cp) ==
    UNION {{<<Fold(k), [cp[k][i] EXCEPT !.target = FoldLoc(@)]>> : i \in 1..Len(cp[k])} :
              k \in DOMAIN cp}

\* the files and directories of output tree o, the category names folded
FoldedOutput(o) == {<<FoldLoc(loc), o[loc]>> : loc \in DOMAIN o}

\* the run this behaviour made and the run on the same inputs with the other
\* setting of no_keep_plus
ThisRun == [cp |-> collected_paths, out |-> out]
OtherRun == [cp |-> RunOf(~no_keep_plus).cp, out |-> RunOf(~no_keep_plus).out]

\* C18: the run with '+' folded to '_' and the run without folding make the
\* same ledger entries and the same output files once the category names of
\* both are folded, also when two category names fold to the same name.
C18_FoldingCosmetic ==
    pc = "done" =>
        /\ FoldedEntries(ThisRun.cp) = FoldedEntries(OtherRun.cp)
        /\ FoldedOutput(ThisRun.out) = FoldedOutput(OtherRun.out)

\* the call of Reach met a node whose type query answers "not a directory"
DeadEnd ==
    /\ stage = "returned"
    /\ Images[image][arg.node].kind # "dir"
    /\ <<arg.node, "type">> \notin faults

\* C19: when the walker reaches a non-directory with segments remaining it
\* returns without raising, every ledger list is as it was (a list created
\* for the category is empty), and nothing is written, opened or counted.
C19_DeadEndSilent ==
    DeadEnd =>
        /\ res.exc = NoExc
        /\ DOMAIN res.cp = DOMAIN collected_paths \cup {PlusQ}
        /\ \A k \in DOMAIN res.cp :
               res.cp[k] = IF k \in DOMAIN collected_paths THEN collected_paths[k] ELSE <<>>
        /\ res.out = out
        /\ res.streams = streams
        /\ res.count = 0
        /\ res.log = <<>>

\* C19 witness: the call reached the file B.txt of A/{x/{B.txt}, y/{}} with
\* the segment '*' remaining and an entry already in the category's list
C19_Witness ==
    /\ DeadEnd
    /\ image = 1
    /\ arg = [node |-> 4, path_parts |-> << <<"*">> >>]
    /\ collected_paths = (PlusQ :> <<Entry("ok", OriginalFullPath(<< <<"W">> >>), <<>>, "")>>)
    /\ res.cp = collected_paths


\* C20: a run never changes a rule of the loaded catalog: at every point of
\* the run each rule has the keys and values it was loaded with.
C20_RulesUnchanged == artifacts = ArtifactsToExtract(llm_name)


\* C21: after a rule, the rule's counter equals the number of extract_item
\* invocations made for that rule, whatever the kind of the nodes and whether
\* their extraction succeeded.
C21_CounterCountsCalls == RuleRan => counter = Len(EventsOf(log, "call"))


\* C22: the files one rule writes for its category go to different output
\* locations: no two distinct file nodes are written to the same location.
C22_NoOverwrite ==
    [][RuleDue =>
         \A i, j \in 1..Len(EventsOf(log', "write")) :
             EventsOf(log', "write")[i].loc = EventsOf(log', "write")[j].loc
                 => EventsOf(log', "write")[i].node = EventsOf(log', "write")[j].node]_vars


\* some segment of the path is '.' or '..'
HasPseudoSegment(parts) == \E i \in 1..Len(parts) : IsPseudo(parts[i])

\* C23: whatever the rule (bare wildcard, embedded wildcard, exact segment,
\* allow-list), no path handed to extract_item and no success path of the
\* ledger has a segment '.' or '..'.
C23_NoPseudoEntry ==
    stage = "traversed" =>
        /\ \A i \in 1..Len(res.log) :
               res.log[i].op = "call" => ~HasPseudoSegment(res.log[i].path)
        /\ \A k \in DOMAIN res.cp : \A i \in 1..Len(res.cp[k]) :
               res.cp[k][i].tag = "ok"
                   => ~HasPseudoSegment(Split(Tail(res.cp[k][i].path), "/"))


\* s is a non-empty contiguous suffix of t
IsSuffix(s, t) ==
    /\ s # <<>>
    /\ Len(s) <= Len(t)
    /\ s = SubSeq(t, Len(t) - Len(s) + 1, Len(t))

\* C24: whenever extract_item runs the path so far is not empty and ends in
\* the node's own name; whenever it computes an output location, the
\* output-relative path is a non-empty contiguous suffix of the path so far
\* that ends in the node's name, and the location is the category followed by
\* exactly that suffix.
C24_RelativePathSuffix ==
    RuleRan =>
        \A i \in 1..Len(log) :
            /\ log[i].op = "call" =>
                   /\ log[i].path # <<>>
                   /\ log[i].path[Len(log[i].path)] = Images[image][log[i].node].name
            /\ log[i].op = "plan" =>
                   /\ IsSuffix(log[i].rel, log[i].path)
                   /\ log[i].rel[Len(log[i].rel)] = Images[image][log[i].node].name
                   /\ log[i].loc = <<LastKey>> \o log[i].rel

\* C24 witness: a rule without anchor placed B.txt of A/{x/{B.txt}, y/{}},
\* reached by the path A/x/B.txt, under its own name
C24_Witness ==
    /\ RuleRan
    /\ image = 1
    /\ \E i \in 1..Len(log) :
           /\ log[i].op = "plan"
           /\ log[i].path = PathOfB
           /\ log[i].rel = <<PathOfB[3]>>
           /\ log[i].loc = <<LastKey, PathOfB[3]>>

====
